---- MODULE Spec2Model ----
(***************************************************************************)
(* A model of the contact-book manager: the data classes of ab_classes.py  *)
(* (Phone, Birthday, Record, AddressBook) and the command interpreter of   *)
(* bot.py (handlers, input_error, COMMANDS, parser, main).                 *)
(*                                                                         *)
(* A Python str is a sequence of one-character strings.  A character       *)
(* outside ASCII is written by its code point, "u0437" for U+0437.         *)
(***************************************************************************)
EXTENDS Integers, Sequences, FiniteSets, TLC

(***************************************************************************)
(* str methods used by the program                                         *)
(***************************************************************************)
AsciiUpper ==
    <<"A","B","C","D","E","F","G","H","I","J","K","L","M",
      "N","O","P","Q","R","S","T","U","V","W","X","Y","Z">>

AsciiLower ==
    <<"a","b","c","d","e","f","g","h","i","j","k","l","m",
      "n","o","p","q","r","s","t","u","v","w","x","y","z">>

\* Cyrillic capitals of the keywords' letters and their small letters.
CyrUpper ==
    <<"u0410","u0412","u0414","u0415","u0416","u0417","u0418","u0419","u041a",
      "u041b","u041c","u041d","u041e","u041f","u0421","u0425","u0406">>

CyrLower ==
    <<"u0430","u0432","u0434","u0435","u0436","u0437","u0438","u0439","u043a",
      "u043b","u043c","u043d","u043e","u043f","u0441","u0445","u0456">>

Digits == {"0","1","2","3","4","5","6","7","8","9"}

Whitespace == {" ", "\t", "\n"}

\* str.lower() on one character
lower_char(c) ==
    IF \E i \in DOMAIN AsciiUpper : AsciiUpper[i] = c
    THEN AsciiLower[CHOOSE i \in DOMAIN AsciiUpper : AsciiUpper[i] = c]
    ELSE IF \E i \in DOMAIN CyrUpper : CyrUpper[i] = c
         THEN CyrLower[CHOOSE i \in DOMAIN CyrUpper : CyrUpper[i] = c]
         ELSE c

\* str.lower()
lower(s) == [i \in DOMAIN s |-> lower_char(s[i])]

\* str.startswith(prefix)
startswith(s, prefix) ==
    /\ Len(prefix) <= Len(s)
    /\ \A i \in DOMAIN prefix : s[i] = prefix[i]

\* s[n:]
slice_from(s, n) == IF n >= Len(s) THEN <<>> ELSE SubSeq(s, n + 1, Len(s))

\* part in s, for strings
contains(s, part) ==
    \E k \in 0..(Len(s) - Len(part)) :
        \A i \in DOMAIN part : s[k + i] = part[i]

\* "".join(parts) with a separator
RECURSIVE join(_, _)
join(sep, parts) ==
    IF parts = <<>> THEN <<>>
    ELSE IF Len(parts) = 1 THEN parts[1]
    ELSE parts[1] \o sep \o join(sep, Tail(parts))

\* str.split(): the maximal runs of non-whitespace characters, in order.
\* cur is the run being read, None when between runs.
RECURSIVE split_from(_, _, _)
split_from(s, i, cur) ==
    IF i > Len(s) THEN (IF cur = <<>> THEN <<>> ELSE <<cur>>)
    ELSE IF s[i] \in Whitespace
         THEN (IF cur = <<>> THEN <<>> ELSE <<cur>>) \o split_from(s, i + 1, <<>>)
         ELSE split_from(s, i + 1, Append(cur, s[i]))

split(s) == split_from(s, 1, <<>>)

\* str.replace(" ", "")
remove_spaces(s) == SelectSeq(s, LAMBDA c : c # " ")

\* str.strip()
RECURSIVE lstrip(_)
lstrip(s) ==
    IF s # <<>> /\ s[1] \in Whitespace THEN lstrip(Tail(s)) ELSE s

RECURSIVE rstrip(_)
rstrip(s) ==
    IF s # <<>> /\ s[Len(s)] \in Whitespace
    THEN rstrip(SubSeq(s, 1, Len(s) - 1)) ELSE s

strip(s) == rstrip(lstrip(s))

(***************************************************************************)
(* Values.  Every value a call yields is a record: a call that raises      *)
(* yields [raised |-> <exception class>, text |-> <its message>], a         *)
(* returned message is [text |-> <the f-string>, <field> |-> <value>, ...], *)
(* and None is NoneValue.                                                   *)
(***************************************************************************)
Raise(exc, text) == [raised |-> exc, text |-> text]

IsRaised(x) == "raised" \in DOMAIN x

NoneValue == [none |-> TRUE]

(***************************************************************************)
(* class Phone                                                             *)
(***************************************************************************)
PhoneMinLen == 7

PhoneMaxLen == 15

\* A decimal digit outside ASCII (ARABIC-INDIC DIGIT ONE): \d matches it.
UnicodeDigits == {"u0661"}

\* re.match(r"^\d{7,15}$", value): 7 to 15 digits up to the end of the
\* string, or up to a newline that ends the string.
phone_regex_matches(value) ==
    LET body == IF value # <<>> /\ value[Len(value)] = "\n"
                THEN SubSeq(value, 1, Len(value) - 1) ELSE value
    IN  /\ Len(body) >= PhoneMinLen
        /\ Len(body) <= PhoneMaxLen
        /\ \A i \in DOMAIN body : body[i] \in Digits \cup UnicodeDigits

\* Phone._validate_phone: TRUE when it returns, FALSE when it raises ValueError
_validate_phone(value) == phone_regex_matches(value)

InvalidPhoneFormat == Raise("ValueError", "Invalid phone number format")

\* Phone(value): a new object, of identity oid, or the ValueError of the setter.
\* A Phone defines no __eq__: two Phone objects are equal when they are the
\* same object.
Phone(oid, value) ==
    IF _validate_phone(value)
    THEN [oid |-> oid, value |-> value]
    ELSE InvalidPhoneFormat

\* Phone.__str__
phone_str(phone) == phone.value

\* Phone.value setter on an object that exists: the object afterwards and
\* None, or the object as it was and the ValueError
value_setter(self, new_value) ==
    IF _validate_phone(new_value)
    THEN [self |-> [self EXCEPT !.value = new_value], result |-> NoneValue]
    ELSE [self |-> self, result |-> InvalidPhoneFormat]

(***************************************************************************)
(* class Birthday, with the datetime functions it uses                     *)
(***************************************************************************)
DigitSeq == <<"0","1","2","3","4","5","6","7","8","9">>

digit_value(c) == (CHOOSE i \in DOMAIN DigitSeq : DigitSeq[i] = c) - 1

RECURSIVE int_of_digits(_)
int_of_digits(s) ==
    IF s = <<>> THEN 0
    ELSE 10 * int_of_digits(SubSeq(s, 1, Len(s) - 1)) + digit_value(s[Len(s)])

all_digits(s) == s # <<>> /\ \A i \in DOMAIN s : s[i] \in Digits

is_leap(year) ==
    (year % 4 = 0) /\ ((year % 100 # 0) \/ (year % 400 = 0))

days_in_month(year, month) ==
    IF month = 2 THEN (IF is_leap(year) THEN 29 ELSE 28)
    ELSE IF month \in {4, 6, 9, 11} THEN 30 ELSE 31

\* date(year, month, day): the date, or ValueError
date(year, month, day) ==
    IF /\ year >= 1 /\ year <= 9999
       /\ month >= 1 /\ month <= 12
       /\ day >= 1 /\ day <= days_in_month(year, month)
    THEN [year |-> year, month |-> month, day |-> day]
    ELSE Raise("ValueError", "day is out of range for month")

\* the fields of s between the "-" characters
RECURSIVE dash_fields(_, _, _)
dash_fields(s, i, cur) ==
    IF i > Len(s) THEN <<cur>>
    ELSE IF s[i] = "-" THEN <<cur>> \o dash_fields(s, i + 1, <<>>)
         ELSE dash_fields(s, i + 1, Append(cur, s[i]))

\* datetime.strptime(value, "%d-%m-%Y").date(): %d is one or two digits
\* making 1..31 (or a space and a digit), %m one or two digits making 1..12,
\* %Y four digits; the whole string must be consumed.
strptime(value) ==
    LET f == dash_fields(value, 1, <<>>)
        d == IF Len(f) = 3 /\ Len(f[1]) = 2 /\ f[1][1] = " "
             THEN Tail(f[1]) ELSE IF Len(f) = 3 THEN f[1] ELSE <<>>
        bad == Raise("ValueError", "time data does not match format")
    IN  IF /\ Len(f) = 3
           /\ all_digits(d) /\ Len(d) <= 2
           /\ (Len(f[1]) = 2 /\ f[1][1] = " ") => d[1] # "0"
           /\ int_of_digits(d) >= 1 /\ int_of_digits(d) <= 31
           /\ all_digits(f[2]) /\ Len(f[2]) <= 2
           /\ int_of_digits(f[2]) >= 1 /\ int_of_digits(f[2]) <= 12
           /\ all_digits(f[3]) /\ Len(f[3]) = 4
        THEN date(int_of_digits(f[3]), int_of_digits(f[2]), int_of_digits(d))
        ELSE bad

InvalidBirthday ==
    Raise("BirthdayError", "Invalid birthday format. Use DD-MM-YYYY format.")

\* Birthday(value): _validate_birthday, then the parsed date
Birthday(value) ==
    IF IsRaised(strptime(value)) THEN InvalidBirthday ELSE strptime(value)

\* the day's number within its year, 1 for 1 January
RECURSIVE days_before_month(_, _)
days_before_month(year, month) ==
    IF month = 1 THEN 0
    ELSE days_before_month(year, month - 1) + days_in_month(year, month - 1)

day_of_year(d) == days_before_month(d.year, d.month) + d.day

date_lt(a, b) ==
    \/ a.year < b.year
    \/ a.year = b.year /\ a.month < b.month
    \/ a.year = b.year /\ a.month = b.month /\ a.day < b.day

\* (a - b).days for dates at most a year apart, a not before b
delta_days(a, b) ==
    IF a.year = b.year THEN day_of_year(a) - day_of_year(b)
    ELSE (IF is_leap(b.year) THEN 366 ELSE 365) - day_of_year(b) + day_of_year(a)

\* Birthday.days_to_birthday, with current_date the date of datetime.now():
\* [days |-> delta.days], or the ValueError of date()
days_to_birthday(birthday, current_date) ==
    LET this_year == date(current_date.year, birthday.month, birthday.day)
        next_year == date(current_date.year + 1, birthday.month, birthday.day)
    IN  IF IsRaised(this_year) THEN this_year
        ELSE IF date_lt(this_year, current_date)
             THEN (IF IsRaised(next_year) THEN next_year
                   ELSE [days |-> delta_days(next_year, current_date)])
             ELSE [days |-> delta_days(this_year, current_date)]

two_digits(n) == <<DigitSeq[(n \div 10) + 1], DigitSeq[(n % 10) + 1]>>

RECURSIVE decimal(_)
decimal(n) ==
    IF n < 10 THEN <<DigitSeq[n + 1]>>
    ELSE Append(decimal(n \div 10), DigitSeq[(n % 10) + 1])

\* Birthday.__str__: strftime("%d-%m-%Y"); the C library writes %Y unpadded
birthday_str(birthday) ==
    two_digits(birthday.day) \o <<"-">> \o two_digits(birthday.month)
        \o <<"-">> \o decimal(birthday.year)

(***************************************************************************)
(* class Record: [name, phones, birthday], phones the list of Phone        *)
(* objects, birthday a date or NoneValue                                   *)
(***************************************************************************)
\* phone in self.phones: list membership by ==, which for Phone is identity
phone_in(phone, phones) == \E i \in DOMAIN phones : phones[i].oid = phone.oid

\* Record.add_phone: the record afterwards and the message returned
add_phone(self, phone) ==
    IF ~phone_in(phone, self.phones)
    THEN [self |-> [self EXCEPT !.phones = Append(self.phones, phone)],
          result |-> [text |-> "Phone {phone} added to contact {self.name}",
                      phone |-> phone_str(phone), name |-> self.name]]
    ELSE [self |-> self,
          result |-> [text |-> "Phone {phone} already present in contact {self.name}",
                      phone |-> phone_str(phone), name |-> self.name]]

\* change_phone without its return inside the loop: every phone of
\* old_phone's value is replaced
change_phone_every(self, old_phone, new_phone) ==
    LET hits == {idx \in DOMAIN self.phones :
                     old_phone.value = self.phones[idx].value}
    IN  IF hits # {}
        THEN [self |-> [self EXCEPT !.phones =
                           [idx \in DOMAIN self.phones |->
                               IF idx \in hits THEN new_phone
                               ELSE self.phones[idx]]],
              result |-> [text |-> "Old phone {old_phone} changed to {new_phone}",
                          old_phone |-> phone_str(old_phone),
                          new_phone |-> phone_str(new_phone)]]
        ELSE [self |-> self,
              result |-> [text |-> "{old_phone} not present in phonebook",
                          old_phone |-> phone_str(old_phone)]]

\* Record.change_phone: the first phone of old_phone's value is replaced
change_phone(self, old_phone, new_phone) ==
    LET hits == {idx \in DOMAIN self.phones :
                     old_phone.value = self.phones[idx].value}
        first == CHOOSE idx \in hits : \A j \in hits : idx <= j
    IN  IF hits # {}
        THEN [self |-> [self EXCEPT !.phones[first] = new_phone],
              result |-> [text |-> "Old phone {old_phone} changed to {new_phone}",
                          old_phone |-> phone_str(old_phone),
                          new_phone |-> phone_str(new_phone)]]
        ELSE [self |-> self,
              result |-> [text |-> "{old_phone} not present in phonebook",
                          old_phone |-> phone_str(old_phone)]]

\* Record(name, phone, birthday): phone a Phone or NoneValue; birthday a str,
\* None being written as the empty str, which "if birthday" treats alike.
\* The new record, or the BirthdayError of Birthday(birthday).
Record(name, phone, birthday) ==
    LET empty == [name |-> name, phones |-> <<>>, birthday |-> NoneValue]
        withPhone == IF phone # NoneValue THEN add_phone(empty, phone).self
                     ELSE empty
    IN  IF birthday # <<>>
        THEN (IF IsRaised(Birthday(birthday)) THEN Birthday(birthday)
              ELSE [withPhone EXCEPT !.birthday = Birthday(birthday)])
        ELSE withPhone

\* Record.__str__
record_str(self) ==
    self.name \o <<":", " ", "[">>
        \o join(<<",", " ">>, [i \in DOMAIN self.phones |-> phone_str(self.phones[i])])
        \o <<"]">>
        \o (IF self.birthday # NoneValue
            THEN <<" ","(","B","i","r","t","h","d","a","y",":"," ">>
                     \o birthday_str(self.birthday) \o <<")">>
            ELSE <<>>)

(***************************************************************************)
(* class AddressBook.  self.data, a dict keyed by name, is the sequence of *)
(* its values in insertion order; each value carries its key as its name.  *)
(* (After a load that found no file self.data is an AddressBook around a   *)
(* dict, which answers every operation used here as the dict does.)        *)
(***************************************************************************)
DefaultPageSize == 5

\* name in self.data
has_key(data, name) == \E i \in DOMAIN data : data[i].name = name

key_index(data, name) == CHOOSE i \in DOMAIN data : data[i].name = name

\* AddressBook.get(name): the record, or NoneValue
get(data, name) == IF has_key(data, name) THEN data[key_index(data, name)] ELSE NoneValue

\* del self.data[name]
del_item(data, name) == SelectSeq(data, LAMBDA r : r.name # name)

\* an assignment that always makes a new entry
set_item_appends(data, record) == Append(data, record)

\* self.data[key] = record: an existing key keeps its place
set_item(data, record) ==
    IF has_key(data, record.name)
    THEN [data EXCEPT ![key_index(data, record.name)] = record]
    ELSE Append(data, record)

\* AddressBook.add_record
add_record(data, record) ==
    [data |-> set_item(data, record),
     result |-> [text |-> "Contact {record.name} added", name |-> record.name]]

\* del_record without its del statement
del_record_keeps(data, name) ==
    [data |-> data,
     result |-> [text |-> "Contact {name} does not exist in the phonebook",
                 name |-> name]]

\* AddressBook.del_record, the definition of lines 182-185, which replaces
\* the one of lines 150-154
del_record(data, name) ==
    [data |-> IF has_key(data, name) THEN del_item(data, name) ELSE data,
     result |-> [text |-> "Contact {name} does not exist in the phonebook",
                 name |-> name]]

\* islice with the element at stop taken too
islice_through_stop(data, start, stop) ==
    IF start >= Len(data) THEN <<>>
    ELSE SubSeq(data, start + 1, IF stop + 1 < Len(data) THEN stop + 1 ELSE Len(data))

\* itertools.islice(self.values(), start, stop), consumed at once
islice(data, start, stop) ==
    IF start >= Len(data) THEN <<>>
    ELSE SubSeq(data, start + 1, IF stop < Len(data) THEN stop ELSE Len(data))

\* AddressBook.iterator: the pages the generator yields from current_page on
RECURSIVE iterator_from(_, _, _, _)
iterator_from(data, page_size, total_records, current_page) ==
    IF current_page < total_records
    THEN <<islice(data, current_page, current_page + page_size)>>
             \o iterator_from(data, page_size, total_records,
                              current_page + page_size)
    ELSE <<>>

iterator(data, page_size) == iterator_from(data, page_size, Len(data), 0)

(***************************************************************************)
(* Persistence.  A file is absent, empty, or holds a pickle of self.data.  *)
(* pickle writes each object once and refers to it by its memo number      *)
(* afterwards; loading builds new objects, one per memo number.            *)
(***************************************************************************)
DefaultPath == "addressbook.pkl"

Absent == [kind |-> "absent"]

EmptyFile == [kind |-> "empty"]

\* the Phone identities of the book in the order pickle meets them
RECURSIVE oids_in_order(_)
oids_in_order(data) ==
    IF data = <<>> THEN <<>>
    ELSE [i \in DOMAIN data[1].phones |-> data[1].phones[i].oid]
             \o oids_in_order(Tail(data))

\* the memo number pickle gives the object oid: the count of distinct objects
\* met up to its first occurrence
memo_of(data, oid) ==
    LET order == oids_in_order(data)
        first == CHOOSE i \in DOMAIN order :
                     order[i] = oid /\ \A j \in 1..(i - 1) : order[j] # oid
    IN  Cardinality({order[j] : j \in 1..first})

\* The book with its objects named 1, 2, ... in the order they occur in it.
\* Identities are only ever compared for equality (phone_in), so a book and
\* its renaming behave alike; the state holds the renamed book.
by_order(data) ==
    [r \in DOMAIN data |->
        [data[r] EXCEPT !.phones =
            [i \in DOMAIN data[r].phones |->
                [data[r].phones[i] EXCEPT
                    !.oid = memo_of(data, data[r].phones[i].oid)]]]]

\* pickle.dump(self.data, file): the bytes written
pickle_dump(data) ==
    [kind |-> "pickle",
     items |-> [r \in DOMAIN data |->
                  [name |-> data[r].name,
                   phones |-> [i \in DOMAIN data[r].phones |->
                                 [memo |-> memo_of(data, data[r].phones[i].oid),
                                  _value |-> data[r].phones[i].value]],
                   birthday |-> data[r].birthday]]]

\* pickle.load(file) on bytes pickle.dump wrote
pickle_load(content) ==
    [r \in DOMAIN content.items |->
        [name |-> content.items[r].name,
         phones |-> [i \in DOMAIN content.items[r].phones |->
                       [oid |-> content.items[r].phones[i].memo,
                        value |-> content.items[r].phones[i]._value]],
         birthday |-> content.items[r].birthday]]

\* AddressBook.load_address_book with path the answer to its prompt:
\* the book's data afterwards
load_address_book(files, path) ==
    LET p == IF path = "" THEN DefaultPath ELSE path
    IN  IF files[p] = Absent THEN <<>>
        ELSE IF files[p] = EmptyFile THEN <<>>
        ELSE pickle_load(files[p])

\* save_address_book writing the default file whatever the answer
save_address_book_default(data, files, path) ==
    [files EXCEPT ![DefaultPath] = pickle_dump(data)]

\* AddressBook.save_address_book() with path the answer to its prompt:
\* the files afterwards
save_address_book(data, files, path) ==
    LET p == IF path = "" THEN DefaultPath ELSE path
    IN  [files EXCEPT ![p] = pickle_dump(data)]

(***************************************************************************)
(* bot.py: the handlers.  A handler yields [data |-> the book afterwards,  *)
(* result |-> the value returned], or the exception it raises; every raise *)
(* of a handler comes before its first change of the book.                 *)
(***************************************************************************)
IndexError == Raise("IndexError", "tuple index out of range")

\* the identities of the Phone objects the book holds
oids_of(data) == {oids_in_order(data)[i] : i \in DOMAIN oids_in_order(data)}

\* the identity of the k-th object constructed while the book holds data
new_oid(data, k) ==
    CHOOSE n \in 1..(Cardinality(oids_of(data)) + k) :
        Cardinality({m \in 1..n : m \notin oids_of(data)}) = k

phones_str(phones) ==
    join(<<",", " ">>, [i \in DOMAIN phones |-> phone_str(phones[i])])

\* add_command(*args), undecorated
add_command(data, args) ==
    IF Len(args) < 2 THEN IndexError
    ELSE
    LET name == args[1]
        phone == Phone(new_oid(data, 1), remove_spaces(strip(args[2])))
        birth == IF Len(args) >= 3 THEN args[3] ELSE <<>>
        rec == get(data, name)
    IN  IF IsRaised(phone) THEN phone
        ELSE IF rec # NoneValue
        THEN [data |-> [data EXCEPT ![key_index(data, name)] =
                                        add_phone(rec, phone).self],
              result |-> [text |-> "Phone {(str(phone))} added to contact {rec.name}",
                          phone |-> phone_str(phone), name |-> rec.name]]
        ELSE IF IsRaised(Record(name, phone, birth))
             THEN Record(name, phone, birth)
             ELSE add_record(data, Record(name, phone, birth))

\* change_command(*args), undecorated
change_command(data, args) ==
    IF Len(args) < 2 THEN IndexError
    ELSE IF IsRaised(Phone(new_oid(data, 1), args[2]))
         THEN Phone(new_oid(data, 1), args[2])
    ELSE IF Len(args) < 3 THEN IndexError
    ELSE IF IsRaised(Phone(new_oid(data, 2), args[3]))
         THEN Phone(new_oid(data, 2), args[3])
    ELSE
    LET name == args[1]
        old_phone == Phone(new_oid(data, 1), args[2])
        new_phone == Phone(new_oid(data, 2), args[3])
        rec == get(data, name)
    IN  IF rec # NoneValue
        THEN [data |-> [data EXCEPT ![key_index(data, name)] =
                                        change_phone(rec, old_phone, new_phone).self],
              result |-> change_phone(rec, old_phone, new_phone).result]
        ELSE [data |-> data,
              result |-> [text |-> "No contact {name} in address book",
                          name |-> name]]

\* unknown_command(*args), undecorated
unknown_command(data, args) ==
    IF Len(args) < 1 THEN IndexError
    ELSE [data |-> data,
          result |-> [text |-> "Unknown command: {args[0]}", arg |-> args[1]]]

\* help_command(*args)
help_command(data, args) ==
    [data |-> data, result |-> [text |-> "help text"]]

\* get_phone_command(*args), undecorated; current_date is the date of now()
get_phone_command(data, args, current_date) ==
    IF Len(args) # 1
    THEN [data |-> data,
          result |-> [text |-> "Invalid arguments. Usage: get <contact_name>"]]
    ELSE
    LET contact_name == args[1]
        rec == get(data, contact_name)
    IN  IF rec # NoneValue
        THEN IF rec.birthday # NoneValue
             THEN (IF IsRaised(days_to_birthday(rec.birthday, current_date))
                   THEN days_to_birthday(rec.birthday, current_date)
                   ELSE [data |-> data,
                         result |-> [text |-> "Phones for {contact_name}: {phones}: (Days to birthday: {days})",
                                     name |-> contact_name,
                                     phones |-> phones_str(rec.phones),
                                     days |-> days_to_birthday(rec.birthday, current_date).days]])
             ELSE [data |-> data,
                   result |-> [text |-> "Phones for {contact_name}: {phones}",
                               name |-> contact_name,
                               phones |-> phones_str(rec.phones)]]
        ELSE [data |-> data,
              result |-> [text |-> "Contact {contact_name} not found in the address book",
                          name |-> contact_name]]

\* find_command(*args), undecorated
find_command(data, args) ==
    IF Len(args) < 1 THEN IndexError
    ELSE
    LET search == args[1]
        hits == SelectSeq(data, LAMBDA i : contains(record_str(i), search))
    IN  IF Len(search) < 3
        THEN [data |-> data,
              result |-> [text |-> "Invalid arguments. Usage: find <minimum 3 symbols>"]]
        ELSE IF hits # <<>>
        THEN [data |-> data,
              result |-> [text |-> "{result}",
                          lines |-> [k \in DOMAIN hits |-> record_str(hits[k])]]]
        ELSE [data |-> data,
              result |-> [text |-> "No matches found for {search}",
                          search |-> search]]

\* int(s) for a str: an optional sign and decimal digits, else ValueError
int_literal(s) ==
    LET signed == s # <<>> /\ s[1] \in {"+", "-"}
        body == IF signed THEN Tail(s) ELSE s
    IN  IF all_digits(body)
        THEN [int |-> IF signed /\ s[1] = "-" THEN 0 - int_of_digits(body)
                      ELSE int_of_digits(body)]
        ELSE Raise("ValueError", "invalid literal for int() with base 10")

\* the lines show_all_command writes for the records of one page
page_lines(records, current_date) ==
    [k \in DOMAIN records |->
        [str |-> record_str(records[k]),
         days |-> IF records[k].birthday # NoneValue
                  THEN days_to_birthday(records[k].birthday, current_date)
                  ELSE NoneValue]]

\* show_all_command(*args), undecorated; end_page is an int or float("inf")
show_all_command(data, args, page_size, current_date) ==
    IF data = <<>>
    THEN [data |-> data, result |-> [text |-> "Address book is empty"]]
    ELSE IF Len(args) >= 1 /\ Len(args) <= 2 /\ IsRaised(int_literal(args[1]))
    THEN int_literal(args[1])
    ELSE IF Len(args) = 2 /\ IsRaised(int_literal(args[2]))
    THEN int_literal(args[2])
    ELSE IF Len(args) > 2
    THEN [data |-> data,
          result |-> [text |-> "Invalid arguments. Usage: show all [start_page [end_page]]"]]
    ELSE
    LET start_page == IF args = <<>> THEN 1 ELSE int_literal(args[1]).int
        pages == iterator(data, page_size)
        shown == {page \in DOMAIN pages :
                     /\ start_page <= page
                     /\ \/ args = <<>>
                        \/ Len(args) = 1 /\ page <= start_page
                        \/ Len(args) = 2 /\ page <= int_literal(args[2]).int}
        written == [page \in DOMAIN pages |->
                      [page |-> page,
                       records |-> page_lines(pages[page], current_date)]]
        failed == {page \in shown :
                      \E k \in DOMAIN written[page].records :
                          IsRaised(written[page].records[k].days)}
    IN  IF failed # {}
        THEN Raise("ValueError", "day is out of range for month")
        ELSE [data |-> data,
              result |-> [text |-> "{all_contacts}",
                          pages |-> SelectSeq(written, LAMBDA w : w.page \in shown)]]

\* delete_command that deletes whatever the answer to its prompt
delete_command_unasked(data, args, confirmation) ==
    IF Len(args) < 1 THEN IndexError
    ELSE
    LET contact_name == args[1]
    IN  IF has_key(data, contact_name)
        THEN [data |-> del_record(data, contact_name).data,
              result |-> [text |-> "Contact {contact_name} deleted",
                          name |-> contact_name]]
        ELSE [data |-> data,
              result |-> [text |-> "Contact {contact_name} not found in the address book",
                          name |-> contact_name]]

\* delete_command(*args), undecorated; confirmation is the answer to its prompt
delete_command(data, args, confirmation) ==
    IF Len(args) < 1 THEN IndexError
    ELSE
    LET contact_name == args[1]
    IN  IF has_key(data, contact_name)
        THEN IF lower(confirmation) = <<"y", "e", "s">>
             THEN [data |-> del_record(data, contact_name).data,
                   result |-> [text |-> "Contact {contact_name} deleted",
                               name |-> contact_name]]
             ELSE [data |-> data, result |-> NoneValue]
        ELSE [data |-> data,
              result |-> [text |-> "Contact {contact_name} not found in the address book",
                          name |-> contact_name]]

\* exit_command(), called as cmd(*data): it takes no argument.  path is the
\* answer to the prompt of save_address_book.
exit_command(data, files, args, path) ==
    IF args # <<>>
    THEN Raise("TypeError", "exit_command() takes 0 positional arguments")
    ELSE [data |-> data,
          files |-> save_address_book(data, files, path),
          result |-> [text |-> "Bye"]]

\* input_error: what the wrapper returns for what func did, the book being
\* data when func was called
input_error(outcome, data) ==
    IF ~IsRaised(outcome) THEN outcome
    ELSE IF outcome.raised = "KeyError"
    THEN [data |-> data, result |-> [text |-> "Enter user name"]]
    ELSE IF outcome.raised = "ValueError"
    THEN [data |-> data, result |-> [text |-> outcome.text]]
    ELSE IF outcome.raised = "IndexError"
    THEN [data |-> data, result |-> [text |-> "Invalid command"]]
    ELSE IF outcome.raised = "TypeError"
    THEN [data |-> data,
          result |-> [text |-> "Please provide the necessary parameters"]]
    ELSE IF outcome.raised = "BirthdayError"
    THEN [data |-> data,
          result |-> [text |-> "Invalid birthday format. Please use the format 'day-month-year', e.g., '26-11-1978'."]]
    ELSE outcome

(***************************************************************************)
(* bot.py: COMMANDS and parser                                             *)
(***************************************************************************)
\* The dict in its order.  ("help") is a str, not a tuple: iterating it
\* gives its characters.
COMMANDS ==
    << [cmd |-> "add_command",
        kwds |-> << <<"a","d","d">>, <<"+">> >>],
       [cmd |-> "change_command",
        kwds |-> << <<"c","h","a","n","g","e">>,
                    <<"u0437","u043c","u0456","u043d","u0438">> >>],
       [cmd |-> "exit_command",
        kwds |-> << <<"b","y","e">>, <<"e","x","i","t">>, <<"e","n","d">>,
                    <<"u0432","u0438","u0445","u0456","u0434">> >>],
       [cmd |-> "show_all_command",
        kwds |-> << <<"s","h","o","w"," ","a","l","l">>,
                    <<"u043f","u043e","u043a","u0430","u0436","u0438"," ",
                      "u0432","u0441","u0435">> >>],
       [cmd |-> "delete_command",
        kwds |-> << <<"d","e","l">>, <<"d","e","l","e","t","e">>,
                    <<"u0432","u0438","u0434","u0430","u043b","u0438">> >>],
       [cmd |-> "get_phone_command",
        kwds |-> << <<"g","e","t">>, <<"u0434","u0430","u0439">> >>],
       [cmd |-> "find_command",
        kwds |-> << <<"s","e","a","r","c","h">>, <<"f","i","n","d">>,
                    <<"u0437","u043d","u0430","u0439","u0434","u0438">> >>],
       [cmd |-> "help_command",
        kwds |-> << <<"h">>, <<"e">>, <<"l">>, <<"p">> >>] >>

\* the (cmd, kwd) pairs in the order the two loops of parser visit them
RECURSIVE keyword_order(_)
keyword_order(commands) ==
    IF commands = <<>> THEN <<>>
    ELSE [j \in DOMAIN commands[1].kwds |->
             [cmd |-> commands[1].cmd, kwd |-> commands[1].kwds[j]]]
         \o keyword_order(Tail(commands))

\* parser(text): the handler and the data to call it with
parser(text) ==
    LET order == keyword_order(COMMANDS)
        hits == {i \in DOMAIN order : startswith(lower(text), order[i].kwd)}
        first == CHOOSE i \in hits : \A j \in hits : i <= j
    IN  IF hits # {}
        THEN [cmd |-> order[first].cmd,
              data |-> split(strip(slice_from(text, Len(order[first].kwd))))]
        ELSE [cmd |-> "unknown_command", data |-> <<text>>]

(***************************************************************************)
(* What the user types                                                     *)
(***************************************************************************)
Bob == <<"B","o","b">>

Al == <<"A","l">>

Phone1 == <<"1","1","1","1","1","1","1">>

Phone2 == <<"2","2","2","2","2","2","2">>

ShortPhone == <<"1","2","3">>

Birth1 == <<"1","5","-","0","6","-","1","9","9","0">>

NoSuchDay == <<"3","1","-","0","2","-","1","9","9","0">>

\* str.upper() on one character
upper_char(c) ==
    IF \E i \in DOMAIN AsciiLower : AsciiLower[i] = c
    THEN AsciiUpper[CHOOSE i \in DOMAIN AsciiLower : AsciiLower[i] = c]
    ELSE IF \E i \in DOMAIN CyrLower : CyrLower[i] = c
         THEN CyrUpper[CHOOSE i \in DOMAIN CyrLower : CyrLower[i] = c]
         ELSE c

upper(s) == [i \in DOMAIN s |-> upper_char(s[i])]

capitalize(s) == [i \in DOMAIN s |-> IF i = 1 THEN upper_char(s[i]) ELSE s[i]]

\* a keyword as typed: in small letters, in capitals, and capitalized
Spellings(kwd) == {kwd, upper(kwd), capitalize(kwd)}

\* the line "keyword tok1 ... tokn"
LineOf(kwd, toks) ==
    IF toks = <<>> THEN kwd ELSE kwd \o <<" ">> \o join(<<" ">>, toks)

\* The keywords of the help text (bot.py lines 16-22 and "help") with the
\* handler each stands for, and the argument lists typed after each.
AddArgs ==
    { <<>>, <<Bob>>, <<Bob, Phone1>>, <<Bob, Phone2>>, <<Al, Phone1>>,
      <<Bob, ShortPhone>>, <<Bob, Phone1, Birth1>>, <<Al, Phone2, NoSuchDay>> }

ChangeArgs ==
    { <<Bob, Phone1>>, <<Bob, Phone1, Phone2>>, <<Bob, Phone2, Phone1>>,
      <<Al, Phone1, Phone2>>, <<Bob, Phone1, ShortPhone>>,
      <<Bob, ShortPhone, Phone1>> }

ExitArgs == { <<>>, << <<"n","o","w">> >> }

ShowAllArgs ==
    { <<>>, << <<"1">> >>, << <<"1">>, <<"2">> >>, << <<"x">> >>,
      << <<"1">>, <<"2">>, <<"3">> >> }

DeleteArgs == { <<>>, <<Bob>>, <<Al>> }

GetArgs == { <<>>, <<Bob>>, <<Al>> }

FindArgs == { <<>>, << <<"B","o">> >>, <<Bob>>, << <<"1","1","1">> >> }

HelpArgs == { <<>>, <<Bob>> }

KEYWORDS ==
    << [kwd |-> <<"a","d","d">>, cmd |-> "add_command", args |-> AddArgs],
       [kwd |-> <<"+">>, cmd |-> "add_command", args |-> AddArgs],
       [kwd |-> <<"c","h","a","n","g","e">>, cmd |-> "change_command",
        args |-> ChangeArgs],
       [kwd |-> <<"u0437","u043c","u0456","u043d","u0438">>,
        cmd |-> "change_command", args |-> ChangeArgs],
       [kwd |-> <<"b","y","e">>, cmd |-> "exit_command", args |-> ExitArgs],
       [kwd |-> <<"e","x","i","t">>, cmd |-> "exit_command", args |-> ExitArgs],
       [kwd |-> <<"e","n","d">>, cmd |-> "exit_command", args |-> ExitArgs],
       [kwd |-> <<"u0432","u0438","u0445","u0456","u0434">>,
        cmd |-> "exit_command", args |-> ExitArgs],
       [kwd |-> <<"s","h","o","w"," ","a","l","l">>, cmd |-> "show_all_command",
        args |-> ShowAllArgs],
       [kwd |-> <<"u043f","u043e","u043a","u0430","u0436","u0438"," ",
                  "u0432","u0441","u0435">>,
        cmd |-> "show_all_command", args |-> ShowAllArgs],
       [kwd |-> <<"d","e","l">>, cmd |-> "delete_command", args |-> DeleteArgs],
       [kwd |-> <<"d","e","l","e","t","e">>, cmd |-> "delete_command",
        args |-> DeleteArgs],
       [kwd |-> <<"u0432","u0438","u0434","u0430","u043b","u0438">>,
        cmd |-> "delete_command", args |-> DeleteArgs],
       [kwd |-> <<"g","e","t">>, cmd |-> "get_phone_command", args |-> GetArgs],
       [kwd |-> <<"u0434","u0430","u0439">>, cmd |-> "get_phone_command",
        args |-> GetArgs],
       [kwd |-> <<"s","e","a","r","c","h">>, cmd |-> "find_command",
        args |-> FindArgs],
       [kwd |-> <<"f","i","n","d">>, cmd |-> "find_command", args |-> FindArgs],
       [kwd |-> <<"u0437","u043d","u0430","u0439","u0434","u0438">>,
        cmd |-> "find_command", args |-> FindArgs],
       [kwd |-> <<"h","e","l","p">>, cmd |-> "help_command", args |-> HelpArgs] >>

\* the lines that begin with a keyword
KeywordLines ==
    UNION { { LineOf(w, toks) : w \in Spellings(KEYWORDS[k].kwd),
                                toks \in KEYWORDS[k].args } :
            k \in DOMAIN KEYWORDS }

\* lines that begin with no keyword
OtherLines ==
    { <<>>,
      <<"q","u","i","t">>,
      <<"l","i","s","t">>,
      <<"r","e","m","o","v","e"," ">> \o Bob }

Lines == KeywordLines \cup OtherLines

\* the lines typed in a session: the keywords in small letters
SessionLines ==
    UNION { { LineOf(KEYWORDS[k].kwd, toks) : toks \in KEYWORDS[k].args } :
            k \in DOMAIN KEYWORDS }
        \cup OtherLines

\* answers to the prompt of delete_command
Confirmations == { <<"y","e","s">>, <<"Y","e","s">>, <<"n","o">> }

\* answers to the prompts for a path
OtherPath == "other.pkl"

Paths == { "", DefaultPath, OtherPath }

FileNames == { DefaultPath, OtherPath }

\* dates of datetime.now()
Todays == { [year |-> 2023, month |-> 6, day |-> 15],
            [year |-> 2023, month |-> 6, day |-> 16] }

(***************************************************************************)
(* State                                                                   *)
(***************************************************************************)
VARIABLES
    data,        \* address_book.data
    page_size,   \* address_book.page_size
    files,       \* the files, by path
    pc,          \* where the program is
    user_input,  \* the text given to parser; in main, the answer to the
                 \* prompt of the handler called last
    cmd,         \* the handler or the method called last
    args,        \* the arguments it was called with
    result,      \* what it returned or raised
    old_data     \* SpecStore: address_book.data when the method was called

vars == <<data, page_size, files, pc, user_input, cmd, args, result, old_data>>

\* the bound of the model: Phone objects in the book
MaxPhones == 2

RECURSIVE phone_count(_)
phone_count(d) ==
    IF d = <<>> THEN 0 ELSE Len(d[1].phones) + phone_count(Tail(d))

\* a book an earlier run of the program saved
SavedBook ==
    add_record(<<>>, Record(Bob, Phone(1, Phone2), Birth1)).data

\* the files a run of the program may find
InitialFiles ==
    { [f \in FileNames |-> IF f = DefaultPath THEN EmptyFile ELSE Absent],
      [f \in FileNames |-> IF f = DefaultPath THEN pickle_dump(SavedBook)
                           ELSE Absent] }

(***************************************************************************)
(* bot.py: main.  address_book = AddressBook() at import, then the load,   *)
(* then the loop: one action per handler the line read is dispatched to.   *)
(***************************************************************************)
\* what parser makes of the lines of a session
Calls == { parser(text) : text \in SessionLines }

Init ==
    /\ data = <<>>
    /\ page_size = DefaultPageSize
    /\ files \in InitialFiles
    /\ pc = "load"
    /\ user_input = <<>>
    /\ cmd = "main"
    /\ args = <<>>
    /\ result = NoneValue
    /\ old_data = <<>>

\* address_book.load_address_book()
Load ==
    /\ pc = "load"
    /\ \E path \in Paths :
          /\ data' = load_address_book(files, path)
          /\ cmd' = "load_address_book"
          /\ args' = <<path>>
    /\ pc' = "input"
    /\ result' = NoneValue
    /\ UNCHANGED <<page_size, files, user_input, old_data>>

\* result = cmd(*data); print(result), for a handler that leaves the files
\* alone: an exception that escapes the handler ends the program.
\* answer is what the user typed at the prompt of the handler, the empty
\* str when it showed none.
DispatchAsked(call, outcome, answer) ==
    /\ cmd' = call.cmd
    /\ args' = call.data
    /\ user_input' = answer
    /\ IF IsRaised(outcome)
       THEN /\ pc' = "crashed"
            /\ result' = outcome
            /\ data' = data
       ELSE /\ pc' = "input"
            /\ result' = outcome.result
            /\ data' = by_order(outcome.data)
            /\ phone_count(outcome.data) <= MaxPhones
    /\ UNCHANGED <<page_size, files, old_data>>

Dispatch(call, outcome) == DispatchAsked(call, outcome, <<>>)

DoAdd ==
    /\ pc = "input"
    /\ \E call \in Calls :
          /\ call.cmd = "add_command"
          /\ Dispatch(call, input_error(add_command(data, call.data), data))

DoChange ==
    /\ pc = "input"
    /\ \E call \in Calls :
          /\ call.cmd = "change_command"
          /\ Dispatch(call, input_error(change_command(data, call.data), data))

DoGet ==
    /\ pc = "input"
    /\ \E call \in Calls, current_date \in Todays :
          /\ call.cmd = "get_phone_command"
          /\ Dispatch(call, input_error(
                 get_phone_command(data, call.data, current_date), data))

DoFind ==
    /\ pc = "input"
    /\ \E call \in Calls :
          /\ call.cmd = "find_command"
          /\ Dispatch(call, input_error(find_command(data, call.data), data))

DoShowAll ==
    /\ pc = "input"
    /\ \E call \in Calls, current_date \in Todays :
          /\ call.cmd = "show_all_command"
          /\ Dispatch(call, input_error(
                 show_all_command(data, call.data, page_size, current_date), data))

DoDelete ==
    /\ pc = "input"
    /\ \E call \in Calls, confirmation \in Confirmations :
          /\ call.cmd = "delete_command"
          /\ DispatchAsked(call,
                 input_error(delete_command(data, call.data, confirmation), data),
                 IF Len(call.data) >= 1 /\ has_key(data, call.data[1])
                 THEN confirmation ELSE <<>>)

DoHelp ==
    /\ pc = "input"
    /\ \E call \in Calls :
          /\ call.cmd = "help_command"
          /\ Dispatch(call, help_command(data, call.data))

DoUnknown ==
    /\ pc = "input"
    /\ \E call \in Calls :
          /\ call.cmd = "unknown_command"
          /\ Dispatch(call, input_error(unknown_command(data, call.data), data))

\* exit_command, which is not decorated, and the break that follows it
DoExit ==
    /\ pc = "input"
    /\ \E call \in Calls, path \in Paths :
          /\ call.cmd = "exit_command"
          /\ cmd' = call.cmd
          /\ args' = call.data
          /\ LET outcome == exit_command(data, files, call.data, path)
             IN  IF IsRaised(outcome)
                 THEN /\ pc' = "crashed"
                      /\ result' = outcome
                      /\ files' = files
                 ELSE /\ pc' = "exited"
                      /\ result' = outcome.result
                      /\ files' = outcome.files
    /\ UNCHANGED <<data, page_size, user_input, old_data>>

Next ==
    \/ Load
    \/ DoAdd
    \/ DoChange
    \/ DoGet
    \/ DoFind
    \/ DoShowAll
    \/ DoDelete
    \/ DoHelp
    \/ DoUnknown
    \/ DoExit

Spec == Init /\ [][Next]_vars

(***************************************************************************)
(* parser alone, on every line                                             *)
(***************************************************************************)
InitParser ==
    /\ data = <<>>
    /\ page_size = DefaultPageSize
    /\ files = [f \in FileNames |-> Absent]
    /\ pc = "parse"
    /\ user_input \in Lines
    /\ cmd = "main"
    /\ args = <<>>
    /\ result = NoneValue
    /\ old_data = <<>>

\* cmd, data = parser(user_input)
Parse ==
    /\ pc = "parse"
    /\ cmd' = parser(user_input).cmd
    /\ args' = parser(user_input).data
    /\ pc' = "parsed"
    /\ UNCHANGED <<data, page_size, files, user_input, result, old_data>>

NextParser == Parse

SpecParser == InitParser /\ [][NextParser]_vars

(***************************************************************************)
(* The AddressBook as a store, its methods called in any order             *)
(***************************************************************************)
\* the records a caller passes to add_record
LowerBob == <<"b","o","b">>

RecordPool(d) ==
    { Record(Bob, Phone(new_oid(d, 1), Phone1), <<>>),
      add_phone(Record(Bob, Phone(new_oid(d, 1), Phone2), Birth1),
                Phone(new_oid(d, 2), Phone1)).self,
      Record(LowerBob, Phone(new_oid(d, 1), Phone1), <<>>) }

InitStore ==
    /\ data = <<>>
    /\ page_size = DefaultPageSize
    /\ files = [f \in FileNames |-> IF f = OtherPath THEN EmptyFile ELSE Absent]
    /\ pc = "store"
    /\ user_input = <<>>
    /\ cmd = "AddressBook"
    /\ args = <<>>
    /\ result = NoneValue
    /\ old_data = <<>>

StoreAddRecord ==
    /\ pc = "store"
    /\ \E record \in RecordPool(data) :
          /\ data' = by_order(add_record(data, record).data)
          /\ result' = add_record(data, record).result
          /\ args' = <<record>>
    /\ cmd' = "add_record"
    /\ old_data' = data
    /\ UNCHANGED <<page_size, files, pc, user_input>>

StoreDelRecord ==
    /\ pc = "store"
    /\ \E name \in {Bob, LowerBob, Al} :
          /\ data' = by_order(del_record(data, name).data)
          /\ result' = del_record(data, name).result
          /\ args' = <<name>>
    /\ cmd' = "del_record"
    /\ old_data' = data
    /\ UNCHANGED <<page_size, files, pc, user_input>>

StoreSave ==
    /\ pc = "store"
    /\ \E path \in Paths :
          /\ files' = save_address_book(data, files, path)
          /\ args' = <<path>>
    /\ cmd' = "save_address_book"
    /\ result' = NoneValue
    /\ old_data' = data
    /\ UNCHANGED <<data, page_size, pc, user_input>>

StoreLoad ==
    /\ pc = "store"
    /\ \E path \in Paths :
          /\ data' = load_address_book(files, path)
          /\ args' = <<path>>
    /\ cmd' = "load_address_book"
    /\ result' = NoneValue
    /\ old_data' = data
    /\ UNCHANGED <<page_size, files, pc, user_input>>

NextStore ==
    \/ StoreAddRecord
    \/ StoreDelRecord
    \/ StoreSave
    \/ StoreLoad

SpecStore == InitStore /\ [][NextStore]_vars

(***************************************************************************)
(* AddressBook.iterator alone, on books of every size and page size        *)
(***************************************************************************)
MaxRecords == 3

MaxPageSize == 3

Cy == <<"C","y">>

Di == <<"D","i">>

\* the books of at most n records that add_record builds
RECURSIVE BooksUpTo(_)
BooksUpTo(n) ==
    IF n = 0 THEN { <<>> }
    ELSE BooksUpTo(n - 1) \cup
         { by_order(add_record(d, Record(name, Phone(new_oid(d, 1), Phone1), <<>>)).data) :
               d \in BooksUpTo(n - 1), name \in {Bob, Al, Cy, Di} }

InitPages ==
    /\ data \in BooksUpTo(MaxRecords)
    /\ page_size \in 1..MaxPageSize
    /\ files = [f \in FileNames |-> Absent]
    /\ pc = "pages"
    /\ user_input = <<>>
    /\ cmd = "AddressBook"
    /\ args = <<>>
    /\ result = NoneValue
    /\ old_data = <<>>

\* list(list(page) for page in address_book.iterator())
Iterate ==
    /\ pc = "pages"
    /\ result' = [pages |-> iterator(data, page_size)]
    /\ cmd' = "iterator"
    /\ pc' = "iterated"
    /\ UNCHANGED <<data, page_size, files, user_input, args, old_data>>

NextPages == Iterate

SpecPages == InitPages /\ [][NextPages]_vars

(***************************************************************************)
(* find_command alone, on the lines that reach it, over books of records   *)
(* with and without a birthday                                             *)
(***************************************************************************)
Smith == <<"S","m","i","t","h">>

Jones == <<"J","o","n","e","s">>

\* what is typed after find or search
Queries ==
    { <<"s","m","i">>, <<"S","m","i">>, <<"S","M","I">>, <<"J","o","n">>,
      <<"j","o","n","e","s">>, <<"1","1","1">>, <<"2","2","2">>,
      <<"9","9","0">>, <<"0","6","-">>, <<"x","y","z">>, <<"s","m">> }

FindLines ==
    { LineOf(w, <<q>>) : w \in { <<"f","i","n","d">>, <<"s","e","a","r","c","h">> },
                         q \in Queries }
        \cup { <<"f","i","n","d">> }

\* the contacts add_command puts in the book: name, phone, birthday
FindContacts ==
    { <<Smith, Phone1, <<>> >>, <<Jones, Phone2, <<>> >>, <<Bob, Phone1, Birth1>> }

\* the books of at most n of these contacts, in every order
RECURSIVE FindBooks(_)
FindBooks(n) ==
    IF n = 0 THEN { <<>> }
    ELSE FindBooks(n - 1) \cup
         { by_order(add_record(d, Record(c[1], Phone(new_oid(d, 1), c[2]), c[3])).data) :
               d \in FindBooks(n - 1), c \in FindContacts }

InitFind ==
    /\ data \in FindBooks(Cardinality(FindContacts))
    /\ page_size = DefaultPageSize
    /\ files = [f \in FileNames |-> Absent]
    /\ pc = "find"
    /\ user_input \in FindLines
    /\ cmd = "main"
    /\ args = <<>>
    /\ result = NoneValue
    /\ old_data = <<>>

\* cmd, data = parser(user_input); result = cmd(*data)
Find ==
    /\ pc = "find"
    /\ parser(user_input).cmd = "find_command"
    /\ cmd' = parser(user_input).cmd
    /\ args' = parser(user_input).data
    /\ LET outcome == input_error(find_command(data, parser(user_input).data), data)
       IN  /\ result' = outcome.result
           /\ data' = outcome.data
    /\ pc' = "found"
    /\ UNCHANGED <<page_size, files, user_input, old_data>>

NextFind == Find

SpecFind == InitFind /\ [][NextFind]_vars

(***************************************************************************)
(* Birthday.days_to_birthday, and the two handlers that call it, for a     *)
(* contact of every birthday on every date                                 *)
(***************************************************************************)
\* birthdays as add_command takes them
StoredBirthdays ==
    { Birth1,
      <<"1","6","-","0","6","-","1","9","9","0">>,
      <<"2","9","-","0","2","-","2","0","0","0">>,
      <<"2","8","-","0","2","-","1","9","9","0">>,
      <<"0","1","-","0","3","-","1","9","9","0">>,
      <<"0","1","-","0","1","-","1","9","9","0">>,
      <<"3","1","-","1","2","-","1","9","9","9">> }

\* dates of datetime.now(), in a common year and in a leap year
Calendar ==
    { [year |-> y, month |-> md[1], day |-> md[2]] :
          y \in {2023, 2024},
          md \in { <<1, 1>>, <<2, 28>>, <<3, 1>>, <<6, 15>>, <<6, 16>>, <<12, 31>> } }
        \cup { [year |-> 2024, month |-> 2, day |-> 29] }

InitBirthday ==
    /\ data \in { add_record(<<>>, Record(Bob, Phone(1, Phone1), b)).data :
                      b \in StoredBirthdays }
    /\ page_size = DefaultPageSize
    /\ files = [f \in FileNames |-> Absent]
    /\ pc = "birthday"
    /\ user_input = <<>>
    /\ cmd = "main"
    /\ args = <<>>
    /\ result = NoneValue
    /\ old_data = <<>>

\* rec.birthday.days_to_birthday(), now() being current_date
DaysToBirthday ==
    /\ pc = "birthday"
    /\ \E current_date \in Calendar :
          /\ result' = days_to_birthday(data[1].birthday, current_date)
          /\ args' = <<current_date>>
    /\ cmd' = "days_to_birthday"
    /\ pc' = "days"
    /\ UNCHANGED <<data, page_size, files, user_input, old_data>>

\* get_phone_command(name), now() being current_date
GetBirthday ==
    /\ pc = "birthday"
    /\ \E current_date \in Calendar :
          LET outcome == input_error(
                  get_phone_command(data, <<data[1].name>>, current_date), data)
          IN  /\ result' = outcome.result
              /\ data' = outcome.data
              /\ args' = <<data[1].name, current_date>>
    /\ cmd' = "get_phone_command"
    /\ pc' = "got"
    /\ UNCHANGED <<page_size, files, user_input, old_data>>

\* show_all_command(), now() being current_date
ShowBirthday ==
    /\ pc = "birthday"
    /\ \E current_date \in Calendar :
          LET outcome == input_error(
                  show_all_command(data, <<>>, page_size, current_date), data)
          IN  /\ result' = outcome.result
              /\ data' = outcome.data
              /\ args' = <<current_date>>
    /\ cmd' = "show_all_command"
    /\ pc' = "shown"
    /\ UNCHANGED <<page_size, files, user_input, old_data>>

NextBirthday ==
    \/ DaysToBirthday
    \/ GetBirthday
    \/ ShowBirthday

SpecBirthday == InitBirthday /\ [][NextBirthday]_vars

(***************************************************************************)
(* show_all_command alone, on books of one page and of several             *)
(***************************************************************************)
\* the bound of the books shown: records in the book
MaxShown == 11

LeapBirth == <<"2","9","-","0","2","-","2","0","0","0">>

ShowAllLines ==
    { LineOf(<<"s","h","o","w"," ","a","l","l">>, toks) :
          toks \in { <<>>, << <<"1">> >>, << <<"2">> >>, << <<"3">> >>,
                     << <<"1">>, <<"2">> >>, << <<"2">>, <<"3">> >>,
                     << <<"3">>, <<"1">> >>, << <<"0">>, <<"1">> >>,
                     << <<"1">>, <<"9">> >> } }

\* the name of the k-th contact added
ContactName(k) == <<"N">> \o decimal(k)

\* the book of n contacts, added in turn, the k-th of them with birthday b
\* (none of them when k = 0)
RECURSIVE ShownBook(_, _, _)
ShownBook(n, k, b) ==
    IF n = 0 THEN <<>>
    ELSE add_record(ShownBook(n - 1, k, b),
                    Record(ContactName(n), Phone(n, Phone1),
                           IF n = k THEN b ELSE <<>>)).data

ShownBooks ==
    { ShownBook(n, 0, <<>>) : n \in 0..MaxShown }
        \cup UNION { { ShownBook(n, k, b) : k \in {1, n},
                                             b \in {Birth1, LeapBirth} } :
                      n \in 1..MaxShown }

InitShowAll ==
    /\ data \in ShownBooks
    /\ page_size = DefaultPageSize
    /\ files = [f \in FileNames |-> Absent]
    /\ pc = "show all"
    /\ user_input \in ShowAllLines
    /\ cmd = "main"
    /\ args = <<>>
    /\ result = NoneValue
    /\ old_data = <<>>

\* cmd, data = parser(user_input); result = cmd(*data)
ShowAll ==
    /\ pc = "show all"
    /\ parser(user_input).cmd = "show_all_command"
    /\ cmd' = parser(user_input).cmd
    /\ args' = parser(user_input).data
    /\ \E current_date \in Todays :
          LET outcome == input_error(
                  show_all_command(data, parser(user_input).data, page_size,
                                   current_date), data)
          IN  /\ result' = outcome.result
              /\ data' = outcome.data
    /\ pc' = "shown all"
    /\ UNCHANGED <<page_size, files, user_input, old_data>>

NextShowAll == ShowAll

SpecShowAll == InitShowAll /\ [][NextShowAll]_vars

(***************************************************************************)
(* class Phone alone: objects constructed from, and assigned, every str    *)
(***************************************************************************)
\* the bound of the strs given to Phone: their digits
MaxInputLen == 16

Repeat(c, n) == [i \in 1..n |-> c]

DigitStrings == { Repeat("1", n) : n \in 0..MaxInputLen } \cup { Phone2 }

PhoneInputs ==
    DigitStrings
        \cup { d \o <<"\n">> : d \in DigitStrings }
        \cup { d \o <<"a">> : d \in DigitStrings }
        \cup { <<"+">> \o d : d \in DigitStrings }
        \cup { <<"\n">> \o d : d \in DigitStrings }
        \cup { Repeat("u0661", PhoneMinLen),
               <<"1","1","1","1"," ","1","1","1">>,
               <<"1","1","1","-","1","1","1","1">> }

InitPhone ==
    /\ data = add_record(<<>>, Record(Bob, Phone(1, Phone1), <<>>)).data
    /\ page_size = DefaultPageSize
    /\ files = [f \in FileNames |-> Absent]
    /\ pc = "phone"
    /\ user_input = <<>>
    /\ cmd = "main"
    /\ args = <<>>
    /\ result = NoneValue
    /\ old_data = <<>>

\* Phone(value)
ConstructPhone ==
    /\ pc = "phone"
    /\ \E value \in PhoneInputs :
          /\ result' = Phone(new_oid(data, 1), value)
          /\ args' = <<value>>
    /\ cmd' = "Phone"
    /\ old_data' = data
    /\ UNCHANGED <<data, page_size, files, pc, user_input>>

\* rec.phones[0].value = new_value
AssignPhone ==
    /\ pc = "phone"
    /\ \E new_value \in PhoneInputs :
          LET outcome == value_setter(data[1].phones[1], new_value)
          IN  /\ data' = [data EXCEPT ![1].phones[1] = outcome.self]
              /\ result' = outcome.result
              /\ args' = <<new_value>>
    /\ cmd' = "value.setter"
    /\ old_data' = data
    /\ UNCHANGED <<page_size, files, pc, user_input>>

NextPhone ==
    \/ ConstructPhone
    \/ AssignPhone

SpecPhone == InitPhone /\ [][NextPhone]_vars

(***************************************************************************)
(* The claims                                                              *)
(***************************************************************************)
\* the number of entries of a phone list that carry the value
entries_of(phones, value) ==
    Cardinality({i \in DOMAIN phones : phones[i].value = value})

\* a book without its object identities: names, phone values, birthdays
content_of(record) ==
    [name |-> record.name,
     values |-> [i \in DOMAIN record.phones |-> record.phones[i].value],
     birthday |-> record.birthday]

contents(d) == [r \in DOMAIN d |-> content_of(d[r])]

\* C1: when add is typed for a contact that already holds a phone of the
\* value typed (the second add-phone of that value, with its own new Phone),
\* the contact's list holds exactly one entry of that value afterwards and
\* add_phone reports that the phone is already present.
C1_SecondAddPhoneIsRejected ==
    [][ ( /\ pc = "input"
          /\ cmd' = "add_command"
          /\ Len(args') >= 2
          /\ _validate_phone(remove_spaces(strip(args'[2])))
          /\ has_key(data, args'[1])
          /\ entries_of(get(data, args'[1]).phones,
                        remove_spaces(strip(args'[2]))) >= 1 )
        => ( /\ entries_of(get(data', args'[1]).phones,
                           remove_spaces(strip(args'[2]))) = 1
             /\ add_phone(get(data, args'[1]),
                          Phone(new_oid(data, 1),
                                remove_spaces(strip(args'[2])))).result.text
                    = "Phone {phone} already present in contact {self.name}" )
      ]_vars

\* the paths a save may have written
saved_somewhere == \E f \in FileNames : files[f] = pickle_dump(data)

\* C3: once a line that begins with an exit keyword has been dispatched, with
\* or without further tokens, the book has been saved and the loop has ended
\* normally; the session never ends without the book having been saved.
C3_ExitAlwaysSaves ==
    /\ cmd = "exit_command" => (pc = "exited" /\ saved_somewhere)
    /\ pc \in {"exited", "crashed"} => saved_somewhere

\* C7: in every reachable state every record's phone list holds pairwise
\* distinct values.
C7_PhoneValuesDistinct ==
    \A r \in DOMAIN data :
        \A i, j \in DOMAIN data[r].phones :
            i # j => data[r].phones[i].value # data[r].phones[j].value

\* C2: every line "keyword tok1 ... tokn", the keyword typed in small
\* letters, in capitals or capitalized, is dispatched to the keyword's
\* handler with exactly the tokens tok1 ... tokn.
C2_KeywordLinesDispatch ==
    pc = "parsed" =>
        \A k \in DOMAIN KEYWORDS :
            \A w \in Spellings(KEYWORDS[k].kwd), toks \in KEYWORDS[k].args :
                user_input = LineOf(w, toks)
                    => (cmd = KEYWORDS[k].cmd /\ args = toks)

\* the handlers input_error decorates that work on the book
BookHandlers ==
    { "add_command", "change_command", "delete_command", "get_phone_command",
      "find_command", "show_all_command" }

\* a str that is no phone number: not 7 to 15 digits
malformed_phone(s) == ~_validate_phone(s)

\* a str that is no day-month-year date
malformed_birthday(s) == IsRaised(strptime(s))

\* the arguments of a line fail validation: a malformed phone, a malformed
\* birthday, missing arguments, a page number that is no number
fails_validation(c, a) ==
    \/ /\ c = "add_command"
       /\ \/ Len(a) < 2
          \/ malformed_phone(remove_spaces(strip(a[2])))
          \/ Len(a) >= 3 /\ malformed_birthday(a[3])
    \/ /\ c = "change_command"
       /\ \/ Len(a) < 3
          \/ malformed_phone(a[2])
          \/ malformed_phone(a[3])
    \/ /\ c \in {"delete_command", "get_phone_command", "find_command"}
       /\ Len(a) < 1
    \/ /\ c = "show_all_command"
       /\ Len(a) \in {1, 2}
       /\ \E i \in DOMAIN a : IsRaised(int_literal(a[i]))

\* C4: a line dispatched to add, change, delete, get, search or show-all
\* whose arguments fail validation leaves the loop running, yields a message
\* and leaves the address book exactly as it was.
C4_InvalidArgumentsChangeNothing ==
    [][ ( /\ pc = "input"
          /\ cmd' \in BookHandlers
          /\ fails_validation(cmd', args') )
        => ( /\ pc' = "input"
             /\ ~IsRaised(result')
             /\ result' # NoneValue
             /\ data' = data )
      ]_vars

\* all the pages' records, in order
RECURSIVE concatenation(_)
concatenation(pages) ==
    IF pages = <<>> THEN <<>> ELSE pages[1] \o concatenation(Tail(pages))

\* C5: the pages of one run of the iterator over N records with page size P,
\* consumed in order: ceil(N/P) pages, each with 1 to P records, whose
\* concatenation is the book's records in iteration order.
C5_PagesPartitionTheBook ==
    pc = "iterated" =>
        /\ Len(result.pages) = (Len(data) + page_size - 1) \div page_size
        /\ \A k \in DOMAIN result.pages :
              /\ Len(result.pages[k]) >= 1
              /\ Len(result.pages[k]) <= page_size
        /\ concatenation(result.pages) = data

C5_Witness ==
    /\ pc = "iterated"
    /\ Len(data) = 3
    /\ page_size = 2
    /\ Len(result.pages) = 2
    /\ Len(result.pages[2]) = 1

\* the file an answer to a path prompt names
file_named(path) == IF path = "" THEN DefaultPath ELSE path

names_of(d) == {d[r].name : r \in DOMAIN d}

values_of(record) == {record.phones[i].value : i \in DOMAIN record.phones}

\* the same names and, for each name, the same phone values and birthday
equivalent(a, b) ==
    /\ names_of(a) = names_of(b)
    /\ \A name \in names_of(a) :
          /\ values_of(get(a, name)) = values_of(get(b, name))
          /\ get(a, name).birthday = get(b, name).birthday

\* C6: a load from the path the book was just saved to yields an equivalent
\* book; a load from a missing or an empty file yields the empty book.
C6_SaveThenLoad ==
    [][ /\ ( /\ cmd = "save_address_book"
             /\ cmd' = "load_address_book"
             /\ file_named(args'[1]) = file_named(args[1]) )
           => equivalent(data', data)
        /\ ( /\ cmd' = "load_address_book"
             /\ files[file_named(args'[1])] \in {Absent, EmptyFile} )
           => data' = <<>>
      ]_vars

\* a load gave back the two-record book held when it was called
C6_Witness ==
    /\ cmd = "load_address_book"
    /\ Len(data) = 2
    /\ contents(data) = contents(old_data)
    /\ \E r \in DOMAIN data : data[r].birthday # NoneValue /\ Len(data[r].phones) = 2

\* C8: del_record of a name that is present removes that record and leaves
\* the others as they were, in their order; del_record of a name that is
\* absent leaves the book as it was and returns the not-found message.
C8_DelRecordFrame ==
    [][ cmd' = "del_record" =>
          IF has_key(data, args'[1])
          THEN /\ Len(data') = Len(data) - 1
               /\ contents(data') =
                      SelectSeq(contents(data), LAMBDA c : c.name # args'[1])
          ELSE /\ contents(data') = contents(data)
               /\ result' = [text |-> "Contact {name} does not exist in the phonebook",
                             name |-> args'[1]]
      ]_vars

C8_Witness ==
    /\ cmd = "del_record"
    /\ has_key(old_data, args[1])
    /\ Len(old_data) = 2
    /\ Len(data) = 1
    /\ ~has_key(data, args[1])

unique_names(d) == \A i, j \in DOMAIN d : i # j => d[i].name # d[j].name

\* C9: add_record returns its message and leaves exactly one record under the
\* record's name, the record passed; the count is unchanged when the name was
\* present and one more when it was not; the records under other names are
\* unchanged.  The book never holds two records under one name.
C9_AddRecordFrame ==
    [][ /\ unique_names(data')
        /\ cmd' = "add_record" =>
              LET record == args'[1]
              IN  /\ result' = [text |-> "Contact {record.name} added",
                                name |-> record.name]
                  /\ Cardinality({r \in DOMAIN data' :
                                     data'[r].name = record.name}) = 1
                  /\ content_of(get(data', record.name)) = content_of(record)
                  /\ Len(data') = IF has_key(data, record.name)
                                  THEN Len(data) ELSE Len(data) + 1
                  /\ \A r \in DOMAIN data :
                        data[r].name # record.name =>
                            /\ has_key(data', data[r].name)
                            /\ content_of(get(data', data[r].name))
                                   = content_of(data[r])
      ]_vars

\* add_record replaced a different record of the same name, next to a record
\* whose name differs from it in letter case only
C9_Witness ==
    /\ cmd = "add_record"
    /\ has_key(old_data, args[1].name)
    /\ content_of(get(old_data, args[1].name)) # content_of(args[1])
    /\ Len(data) = 2
    /\ Len(old_data) = 2
    /\ names_of(data) = {Bob, LowerBob}

\* C10: change typed for a contact none of whose phones has the old value
\* returns the "not present" message and leaves the contact's phone values
\* as they were, in their order; when some phone has the old value, the first
\* such entry takes the new value and every other entry keeps its value and
\* its place.
C10_ChangePhoneFrame ==
    [][ ( /\ pc = "input"
          /\ cmd' = "change_command"
          /\ Len(args') >= 3
          /\ _validate_phone(args'[2])
          /\ _validate_phone(args'[3])
          /\ has_key(data, args'[1]) )
        => LET before == content_of(get(data, args'[1])).values
               after == content_of(get(data', args'[1])).values
               hits == {i \in DOMAIN before : before[i] = args'[2]}
               first == CHOOSE i \in hits : \A j \in hits : i <= j
           IN  IF hits = {}
               THEN /\ result' = [text |-> "{old_phone} not present in phonebook",
                                  old_phone |-> args'[2]]
                    /\ after = before
               ELSE after = [before EXCEPT ![first] = args'[3]]
      ]_vars

\* change Bob 1111111 2222222 replaced the first of two entries 1111111
C10_Witness ==
    /\ cmd = "change_command"
    /\ args = <<Bob, Phone1, Phone2>>
    /\ result = [text |-> "Old phone {old_phone} changed to {new_phone}",
                 old_phone |-> Phone1, new_phone |-> Phone2]
    /\ has_key(data, Bob)
    /\ content_of(get(data, Bob)).values = <<Phone2, Phone1>>

\* the renderings of the records of d in which search occurs, letter case
\* set aside
renderings_with(d, search) ==
    LET hits == SelectSeq(d, LAMBDA r : contains(lower(record_str(r)), lower(search)))
    IN  [k \in DOMAIN hits |-> record_str(hits[k])]

\* C11: a search of three characters or more returns the renderings of
\* exactly the records whose rendering (name, phone digits, birthday text)
\* holds the query, whatever the letter case of the query: "smi" over a book
\* with Smith and Jones returns the rendering of Smith alone.
C11_FindIgnoresCase ==
    (pc = "found" /\ Len(args) >= 1 /\ Len(args[1]) >= 3) =>
        IF renderings_with(data, args[1]) = <<>>
        THEN result = [text |-> "No matches found for {search}", search |-> args[1]]
        ELSE result = [text |-> "{result}", lines |-> renderings_with(data, args[1])]

\* the date n days after d, n less than a year
date_after(d, n) ==
    LET length == IF is_leap(d.year) THEN 366 ELSE 365
        k == day_of_year(d) + n
        year == IF k <= length THEN d.year ELSE d.year + 1
        nth == IF k <= length THEN k ELSE k - length
        month == CHOOSE m \in 1..12 :
                     /\ days_before_month(year, m) < nth
                     /\ nth <= days_before_month(year, m) + days_in_month(year, m)
    IN  [year |-> year, month |-> month, day |-> nth - days_before_month(year, month)]

\* the number of days from d to the next date at or after d of the month
\* and day of birthday; -1 when none comes within 366 days
days_to_next(d, birthday) ==
    LET later == {n \in 0..365 : /\ date_after(d, n).month = birthday.month
                                 /\ date_after(d, n).day = birthday.day}
    IN  IF later = {} THEN 0 - 1
        ELSE CHOOSE n \in later : \A m \in later : n <= m

\* C12: for every stored birthday, 29 February included, and every current
\* date, days_to_birthday returns the number n, 0 <= n < 366, of days to the
\* next date of the birthday's month and day (0 on the day itself) and never
\* fails, so that get and show all give the data of a contact with a
\* birthday.
C12_DaysToBirthdayNeverFails ==
    /\ pc = "days" =>
          /\ ~IsRaised(result)
          /\ result.days >= 0 /\ result.days < 366
          /\ result.days = days_to_next(args[1], data[1].birthday)
    /\ pc = "got" =>
          result.text = "Phones for {contact_name}: {phones}: (Days to birthday: {days})"
    /\ pc = "shown" => result.text = "{all_contacts}"

\* the renderings of the records of one page
renderings(records) == [k \in DOMAIN records |-> record_str(records[k])]

\* the pages of the book numbered first to last, each with its number
pages_numbered(d, size, first, last) ==
    LET pages == iterator(d, size)
        numbers == {p \in DOMAIN pages : first <= p /\ p <= last}
    IN  SelectSeq([p \in DOMAIN pages |->
                      [page |-> p, strs |-> renderings(pages[p])]],
                  LAMBDA w : w.page \in numbers)

\* what show all wrote, without the days to the birthdays
pages_written(answer) ==
    [p \in DOMAIN answer.pages |->
        [page |-> answer.pages[p].page,
         strs |-> [k \in DOMAIN answer.pages[p].records |->
                      answer.pages[p].records[k].str]]]

RECURSIVE strs_of(_)
strs_of(written) ==
    IF written = <<>> THEN <<>> ELSE written[1].strs \o strs_of(Tail(written))

\* C13: on a book that is not empty, `show all s e` writes the pages s to e
\* of the iteration, in order, each under its number, and `show all` writes
\* every page, so that each record is written once.
C13_ShowAllWritesThePages ==
    (pc = "shown all" /\ data # <<>>) =>
        /\ result.text = "{all_contacts}"
        /\ Len(args) = 2 =>
              pages_written(result) =
                  pages_numbered(data, page_size, int_literal(args[1]).int,
                                 int_literal(args[2]).int)
        /\ Len(args) = 1 =>
              pages_written(result) =
                  pages_numbered(data, page_size, int_literal(args[1]).int,
                                 int_literal(args[1]).int)
        /\ args = <<>> =>
              /\ pages_written(result) =
                     pages_numbered(data, page_size, 1, Len(data))
              /\ strs_of(pages_written(result)) = renderings(data)

\* a str of 7 to 15 digits and nothing else
digits_only(value) ==
    /\ Len(value) >= 7
    /\ Len(value) <= 15
    /\ \A i \in DOMAIN value : value[i] \in Digits \cup UnicodeDigits

\* C14: constructing a Phone from a str, or assigning a str to its value,
\* succeeds exactly when the str is 7 to 15 digits and nothing else (a
\* trailing newline is something else); the value stored and its string form
\* are then the str; otherwise the operation fails and the value stored
\* before stays.
C14_PhoneAcceptsDigitsOnly ==
    /\ cmd = "Phone" =>
          IF digits_only(args[1])
          THEN /\ ~IsRaised(result)
               /\ result.value = args[1]
               /\ phone_str(result) = args[1]
          ELSE IsRaised(result)
    /\ cmd = "value.setter" =>
          IF digits_only(args[1])
          THEN /\ ~IsRaised(result)
               /\ data[1].phones[1].value = args[1]
               /\ phone_str(data[1].phones[1]) = args[1]
          ELSE /\ IsRaised(result)
               /\ data = old_data

\* the line begins with one of the keywords, letter case set aside
begins_with_keyword(text) ==
    \E k \in DOMAIN KEYWORDS : startswith(lower(text), KEYWORDS[k].kwd)

\* C15: a line that begins with none of the keywords goes to
\* unknown_command, which answers 'Unknown command: <line>' and leaves the
\* book as it is; help_command is called only for lines that begin with
\* `help`.
C15_OtherLinesAreUnknown ==
    pc = "parsed" =>
        /\ ~begins_with_keyword(user_input) =>
              /\ cmd = "unknown_command"
              /\ args = <<user_input>>
              /\ input_error(unknown_command(data, args), data) =
                     [data |-> data,
                      result |-> [text |-> "Unknown command: {args[0]}",
                                  arg |-> user_input]]
        /\ cmd = "help_command" =>
              startswith(lower(user_input), <<"h","e","l","p">>)

\* C16: the message del_record returns tells the two outcomes apart:
\* 'Contact <name> deleted' when the name was in the book and has been
\* removed, 'Contact <name> does not exist in the phonebook' only when it
\* was not in the book.
C16_DelRecordMessage ==
    cmd = "del_record" =>
        IF has_key(old_data, args[1])
        THEN /\ ~has_key(data, args[1])
             /\ result = [text |-> "Contact {name} deleted", name |-> args[1]]
        ELSE result = [text |-> "Contact {name} does not exist in the phonebook",
                       name |-> args[1]]

\* C17: delete removes a contact only after the answer 'yes' (in any letter
\* case) to its prompt: for a name in the book and that answer, that contact
\* alone is removed and 'Contact <name> deleted' is returned; for any other
\* answer, and for a name not in the book (no prompt, a not-found message),
\* the book stays as it was.
C17_DeleteAsksFirst ==
    [][ (cmd' = "delete_command" /\ Len(args') >= 1) =>
          IF has_key(data, args'[1])
          THEN IF lower(user_input') = <<"y","e","s">>
               THEN /\ contents(data') =
                           SelectSeq(contents(data), LAMBDA c : c.name # args'[1])
                    /\ Len(data') = Len(data) - 1
                    /\ result' = [text |-> "Contact {contact_name} deleted",
                                  name |-> args'[1]]
               ELSE data' = data
          ELSE /\ data' = data
               /\ user_input' = <<>>
               /\ result' = [text |-> "Contact {contact_name} not found in the address book",
                             name |-> args'[1]]
      ]_vars

C17_Witness ==
    /\ cmd = "delete_command"
    /\ args = <<Bob>>
    /\ user_input = <<"Y","e","s">>
    /\ result = [text |-> "Contact {contact_name} deleted", name |-> Bob]
    /\ ~has_key(data, Bob)
    /\ has_key(data, Al)

====
